---- MODULE Spec2Model ----
(***************************************************************************)
(* A model of the constant_time_eq crate (src/src/lib.rs): the optimizer   *)
(* barrier optimizer_hide, the byte-wise loop constant_time_ne, the public *)
(* constant_time_eq and the fixed-size constant_time_eq_16/32/64.          *)
(*                                                                         *)
(* One call is executed step by step.  The variables are the call's        *)
(* arguments, its locals and the position in the code; ops is a history    *)
(* variable that records every operation the call performs, in order.      *)
(* Indices are 0-based as in the source; At(s, k) reads element k.         *)
(***************************************************************************)
EXTENDS Integers, Sequences, FiniteSets, TLC

VARIABLES
    target_arch, \* the cfg(target_arch) the crate was built for
    fn,          \* the entry point that was called
    a, b,        \* the two arguments
    pc,          \* position in the code
    len,         \* constant_time_ne: let len = a.len()          (-1: not bound yet)
    sa, sb,      \* constant_time_ne: the re-sliced a and b
    i,           \* the loop index                               (-1: not bound yet)
    tmp,         \* the accumulator                              (-1: not bound yet)
    ret,         \* the u8 returned by constant_time_ne[_n] / optimizer_hide (-1: none)
    result,      \* <<>> while the call runs, <<v>> once it returned v
    panic,       \* "none", or the panic that halted the call
    ops,         \* history: the operations performed so far
    prev         \* history: what the previous call did (NoPrev: there was none)

vars == <<target_arch, fn, a, b, pc, len, sa, sb, i, tmp, ret, result, panic, ops, prev>>

(***************************************************************************)
(* Bounds and input domains.                                               *)
(***************************************************************************)
\* Longest slice handed to the generic functions by the enumerated callers.
MaxLen == 3

\* u8
U8 == 0..255

\* The byte values the enumerated inputs are built from.
ByteSamples == {0, 7, 255}

\* All byte strings of length n over ByteSamples.
BytesOfLen(n) == [1..n -> ByteSamples]

\* [v; n]
Fill(v, n) == [k \in 1..n |-> v]

\* An array with element p (0-based) replaced by v.
Poke(s, p, v) == [s EXCEPT ![p + 1] = v]

\* s[k], 0-based.
At(s, k) == s[k + 1]

(***************************************************************************)
(* u8 arithmetic: ^ and | on bytes (lib.rs line 55 and line 90).           *)
(***************************************************************************)
RECURSIVE BitXor(_, _)
BitXor(x, y) ==
    IF x = 0 /\ y = 0 THEN 0
    ELSE (((x % 2) + (y % 2)) % 2) + 2 * BitXor(x \div 2, y \div 2)

RECURSIVE BitOr(_, _)
BitOr(x, y) ==
    IF x = 0 /\ y = 0 THEN 0
    ELSE (IF (x % 2) = 1 \/ (y % 2) = 1 THEN 1 ELSE 0) + 2 * BitOr(x \div 2, y \div 2)

(***************************************************************************)
(* optimizer_hide, its three cfg variants.                                 *)
(***************************************************************************)
\* cfg(any(target_arch = "x86", target_arch = "x86_64"))
RegByteArchs == {"x86", "x86_64"}

\* cfg(any(target_arch = "arm", "aarch64", "riscv32", "riscv64"))
RegArchs == {"arm", "aarch64", "riscv32", "riscv64"}

\* Every target the model builds for; "wasm32" stands for the not(any(...)) rest.
AllArchs == RegByteArchs \cup RegArchs \cup {"wasm32"}

\* One target per cfg variant, for the specifications that run whole comparisons.
TargetArchs == {"x86_64", "aarch64", "wasm32"}

\* inout(reg) places the u8 in a wider register whose upper bits are undefined
\* on input and ignored on output: the values those bits may hold.  (The widest
\* sample keeps the register within TLC's 32-bit integers.)
UpperBits == {0, 1, 2^23 - 1}

\* inout(reg_byte) value: the byte sits in an 8-bit register; the asm template
\* is a comment, so the register comes back as it went in.
HideRegByte(value) ==
    LET reg == value % 256
    IN  reg

\* A slip: the whole register is taken as the output.
HideRegWhole(value, upper) ==
    LET reg == value + (256 * upper)
    IN  reg

\* inout(reg) value: low 8 bits = value, upper bits undefined; the template is
\* a comment; the output is the low 8 bits of the register.
HideReg(value, upper) ==
    LET reg == value + (256 * upper)
    IN  reg % 256

\* core::ptr::read_volatile(&value): the argument lives in its stack slot and is
\* read back from it.
HideVolatile(value) ==
    LET slot == [addr \in {"value"} |-> value]
    IN  slot["value"]

optimizer_hide(arch, value, upper) ==
    IF arch \in RegByteArchs THEN HideRegByte(value)
    ELSE IF arch \in RegArchs THEN HideReg(value, upper)
    ELSE HideVolatile(value)

(***************************************************************************)
(* The entry points and the inputs the enumerated callers pass.            *)
(***************************************************************************)
\* constant_time_ne_n!(constant_time_ne_16, 16) etc.: the array size of each
\* fixed-size entry point.
ArraySize(f) ==
    CASE f = "constant_time_eq_16" -> 16
      [] f = "constant_time_eq_32" -> 32
      [] f = "constant_time_eq_64" -> 64

FixedFns == {"constant_time_eq_16", "constant_time_eq_32", "constant_time_eq_64"}

PublicFns == {"constant_time_eq"} \cup FixedFns

\* Pairs of slices of any two lengths up to MaxLen.
SlicePairs ==
    UNION {BytesOfLen(m) \X BytesOfLen(n) : m \in 0..MaxLen, n \in 0..MaxLen}

\* Pairs of [u8; n]: a constant array against a constant array with its first
\* or last element replaced (equal, differing in one place, in all but one, in all).
ArrayPairs(n) ==
    {<<Fill(x, n), Poke(Fill(y, n), p, z)>> :
        x \in ByteSamples, y \in ByteSamples, z \in ByteSamples, p \in {0, n - 1}}

\* The arguments the enumerated callers pass to f: arrays to the fixed-size
\* functions; short slices of any two lengths, and the same arrays as slices, to
\* constant_time_eq.
ArgsOf(f) ==
    IF f \in FixedFns THEN ArrayPairs(ArraySize(f))
    ELSE SlicePairs \cup UNION {ArrayPairs(ArraySize(g)) : g \in FixedFns}

\* Where a call of f starts.
EntryOf(f) ==
    CASE f = "constant_time_eq" -> "eq_entry"
      [] f \in FixedFns -> "eqn_entry"
      [] f = "constant_time_ne" -> "ne_entry"
      [] f = "optimizer_hide" -> "hide_entry"

\* prev before any call has returned.
NoPrev == [rel |-> "none", fn |-> "none", ops |-> <<>>, result |-> <<>>]

\* The state at the start of a call of f(x, y): no local is bound yet.
Start(f, x, y) ==
    /\ fn = f /\ a = x /\ b = y /\ pc = EntryOf(f)
    /\ len = -1 /\ sa = <<>> /\ sb = <<>> /\ i = -1 /\ tmp = -1
    /\ ret = -1 /\ result = <<>> /\ panic = "none" /\ ops = <<>>

\* A caller of the public API: any public function on any enumerated input.
Init ==
    /\ target_arch \in TargetArchs
    /\ prev = NoPrev
    /\ \E f \in PublicFns : \E args \in ArgsOf(f) : Start(f, args[1], args[2])

(***************************************************************************)
(* The operations of the loop body and the tests, as the code computes     *)
(* them.                                                                   *)
(***************************************************************************)
\* a.len() == b.len()   (line 45, line 79)
SameLen(x, y) == Len(x) = Len(y)

\* A slip: saturating subtraction for XOR, which misses a[i] < b[i].
AccumulateSaturatingSub(t, x, y) == BitOr(t, IF x > y THEN x - y ELSE 0)

\* A slip: ^= for |=, so a later difference can clear an earlier one.
AccumulateXorAssign(t, x, y) == BitXor(t, BitXor(x, y))

\* A slip: the accumulator is overwritten instead of OR-ed into.
AccumulateOverwrite(t, x, y) == BitXor(x, y)

\* tmp |= a[i] ^ b[i]   (line 55)
Accumulate(t, x, y) == BitOr(t, BitXor(x, y))

\* A slip: the macro's accumulator is overwritten instead of OR-ed into.
AccumulateNOverwrite(t, x, y) == BitXor(x, y)

\* tmp |= a[i] ^ b[i]   (line 90, the macro's loop body)
AccumulateN(t, x, y) == BitOr(t, BitXor(x, y))

\* A slip: the range stops one short.
InRangeOneShort(k, n) == k + 1 < n

\* for i in 0..len: the range still has an element   (line 54, line 89)
InRange(k, n) == k < n

\* ... == 0   (line 79, lines 115, 130, 145)
IsZero(v) == v = 0

\* The operations one loop iteration performs on index k, in order.
BodyOps(k) == <<<<"read_a", k>>, <<"read_b", k>>, <<"xor", k>>, <<"or", k>>>>

(***************************************************************************)
(* constant_time_eq (lines 78-80)                                          *)
(***************************************************************************)
\* A slip: & for &&, so constant_time_ne is called whatever the lengths.
EqLenCheckEager ==
    /\ pc = "eq_entry"
    /\ ops' = Append(ops, <<"len_eq">>)
    /\ pc' = "ne_entry"
    /\ UNCHANGED <<target_arch, fn, a, b, len, sa, sb, i, tmp, ret, result, panic, prev>>

\* a.len() == b.len() && ...: the right operand is evaluated only when the
\* lengths are equal.
EqLenCheck ==
    /\ pc = "eq_entry"
    /\ ops' = Append(ops, <<"len_eq">>)
    /\ IF SameLen(a, b)
       THEN pc' = "ne_entry" /\ UNCHANGED result
       ELSE pc' = "done" /\ result' = <<FALSE>>
    /\ UNCHANGED <<target_arch, fn, a, b, len, sa, sb, i, tmp, ret, panic, prev>>

\* constant_time_ne(a, b) == 0
EqCompare ==
    /\ pc = "eq_cmp"
    /\ ops' = Append(ops, <<"cmp0">>)
    /\ result' = <<IsZero(ret)>>
    /\ pc' = "done"
    /\ UNCHANGED <<target_arch, fn, a, b, len, sa, sb, i, tmp, ret, panic, prev>>

(***************************************************************************)
(* constant_time_ne (lines 43-60)                                          *)
(***************************************************************************)
\* A slip: debug_assert!, compiled out of a release build.
NeAssertCompiledOut ==
    /\ pc = "ne_entry"
    /\ pc' = "ne_slice"
    /\ UNCHANGED <<target_arch, fn, a, b, len, sa, sb, i, tmp, ret, result, panic, ops, prev>>

\* assert!(a.len() == b.len());
NeAssert ==
    /\ pc = "ne_entry"
    /\ ops' = Append(ops, <<"assert_len">>)
    /\ IF SameLen(a, b)
       THEN pc' = "ne_slice" /\ UNCHANGED panic
       ELSE pc' = "panicked" /\ panic' = "assert"
    /\ UNCHANGED <<target_arch, fn, a, b, len, sa, sb, i, tmp, ret, result, prev>>

\* let len = a.len(); let a = &a[..len]; let b = &b[..len];
\* (slicing past the end of b panics)
NeSlice ==
    /\ pc = "ne_slice"
    /\ len' = Len(a)
    /\ IF len' <= Len(a) /\ len' <= Len(b)
       THEN /\ sa' = SubSeq(a, 1, len')
            /\ sb' = SubSeq(b, 1, len')
            /\ pc' = "ne_tmp"
            /\ UNCHANGED panic
       ELSE /\ pc' = "panicked"
            /\ panic' = "slice"
            /\ UNCHANGED <<sa, sb>>
    /\ UNCHANGED <<target_arch, fn, a, b, i, tmp, ret, result, ops, prev>>

\* let mut tmp = 0; for i in 0..len
NeTmp ==
    /\ pc = "ne_tmp"
    /\ tmp' = 0
    /\ i' = 0
    /\ pc' = "ne_loop"
    /\ UNCHANGED <<target_arch, fn, a, b, len, sa, sb, ret, result, panic, ops, prev>>

\* tmp |= a[i] ^ b[i];   (indexing out of bounds panics)
NeLoopBody ==
    /\ pc = "ne_loop"
    /\ InRange(i, len)
    /\ IF i < Len(sa) /\ i < Len(sb)
       THEN /\ tmp' = Accumulate(tmp, At(sa, i), At(sb, i))
            /\ ops' = ops \o BodyOps(i)
            /\ i' = i + 1
            /\ UNCHANGED <<pc, panic>>
       ELSE /\ pc' = "panicked"
            /\ panic' = "index"
            /\ UNCHANGED <<tmp, ops, i>>
    /\ UNCHANGED <<target_arch, fn, a, b, len, sa, sb, ret, result, prev>>

\* A slip: the loop also ends as soon as a difference was seen.
NeLoopExitOnDifference ==
    /\ pc = "ne_loop"
    /\ (~InRange(i, len) \/ tmp # 0)
    /\ pc' = "ne_hide"
    /\ UNCHANGED <<target_arch, fn, a, b, len, sa, sb, i, tmp, ret, result, panic, ops, prev>>

\* the range 0..len is exhausted
NeLoopExit ==
    /\ pc = "ne_loop"
    /\ ~InRange(i, len)
    /\ pc' = "ne_hide"
    /\ UNCHANGED <<target_arch, fn, a, b, len, sa, sb, i, tmp, ret, result, panic, ops, prev>>

\* A slip: tmp is returned as it is, without the barrier.
NeHideLeftOut ==
    /\ pc = "ne_hide"
    /\ ret' = tmp
    /\ IF fn = "constant_time_eq"
       THEN pc' = "eq_cmp" /\ UNCHANGED result
       ELSE pc' = "done" /\ result' = <<ret'>>
    /\ UNCHANGED <<target_arch, fn, a, b, len, sa, sb, i, tmp, panic, ops, prev>>

\* optimizer_hide(tmp), returned to the caller
NeHide ==
    /\ pc = "ne_hide"
    /\ \E upper \in UpperBits : ret' = optimizer_hide(target_arch, tmp, upper)
    /\ ops' = Append(ops, <<"hide">>)
    /\ IF fn = "constant_time_eq"
       THEN pc' = "eq_cmp" /\ UNCHANGED result
       ELSE pc' = "done" /\ result' = <<ret'>>
    /\ UNCHANGED <<target_arch, fn, a, b, len, sa, sb, i, tmp, panic, prev>>

(***************************************************************************)
(* constant_time_ne_n! (lines 84-101) and constant_time_eq_16/32/64        *)
(* (lines 113-116, 128-131, 143-146)                                       *)
(***************************************************************************)
\* let mut tmp = 0; for i in 0..$n
NTmp ==
    /\ pc = "eqn_entry"
    /\ tmp' = 0
    /\ i' = 0
    /\ pc' = "n_loop"
    /\ UNCHANGED <<target_arch, fn, a, b, len, sa, sb, ret, result, panic, ops, prev>>

\* tmp |= a[i] ^ b[i];
NLoopBody ==
    /\ pc = "n_loop"
    /\ InRange(i, ArraySize(fn))
    /\ IF i < Len(a) /\ i < Len(b)
       THEN /\ tmp' = AccumulateN(tmp, At(a, i), At(b, i))
            /\ ops' = ops \o BodyOps(i)
            /\ i' = i + 1
            /\ UNCHANGED <<pc, panic>>
       ELSE /\ pc' = "panicked"
            /\ panic' = "index"
            /\ UNCHANGED <<tmp, ops, i>>
    /\ UNCHANGED <<target_arch, fn, a, b, len, sa, sb, ret, result, prev>>

\* the range 0..$n is exhausted
NLoopExit ==
    /\ pc = "n_loop"
    /\ ~InRange(i, ArraySize(fn))
    /\ pc' = "n_hide"
    /\ UNCHANGED <<target_arch, fn, a, b, len, sa, sb, i, tmp, ret, result, panic, ops, prev>>

\* optimizer_hide(tmp), returned to constant_time_eq_N
NHide ==
    /\ pc = "n_hide"
    /\ \E upper \in UpperBits : ret' = optimizer_hide(target_arch, tmp, upper)
    /\ ops' = Append(ops, <<"hide">>)
    /\ pc' = "eqn_cmp"
    /\ UNCHANGED <<target_arch, fn, a, b, len, sa, sb, i, tmp, result, panic, prev>>

\* constant_time_ne_N(a, b) == 0
EqNCompare ==
    /\ pc = "eqn_cmp"
    /\ ops' = Append(ops, <<"cmp0">>)
    /\ result' = <<IsZero(ret)>>
    /\ pc' = "done"
    /\ UNCHANGED <<target_arch, fn, a, b, len, sa, sb, i, tmp, ret, panic, prev>>

Next ==
    \/ EqLenCheck \/ EqCompare
    \/ NeAssert \/ NeSlice \/ NeTmp \/ NeLoopBody \/ NeLoopExit \/ NeHide
    \/ NTmp \/ NLoopBody \/ NLoopExit \/ NHide \/ EqNCompare

\* One call of a public function.
Spec == Init /\ [][Next]_vars

\* Nothing suspends a call: the thread that made it keeps executing it.
FairSpec == Spec /\ WF_vars(Next)

(***************************************************************************)
(* A caller that compares again.  prev remembers how the new arguments     *)
(* relate to those of the call that just returned, and what that call did. *)
(***************************************************************************)
\* The public functions that accept x and y.
AcceptedBy(x, y) ==
    {"constant_time_eq"} \cup
    {f \in FixedFns : Len(x) = ArraySize(f) /\ Len(y) = ArraySize(f)}

\* The enumerated contents of length n.
ContentsOfLen(n) ==
    IF n <= MaxLen THEN BytesOfLen(n)
    ELSE {Poke(Fill(y, n), p, z) : y \in ByteSamples, z \in ByteSamples, p \in {0, n - 1}}

\* The start of the second call, f(x, y), after the first call returned.
Again(rel, f, x, y) ==
    /\ pc = "done"
    /\ fn \in PublicFns
    /\ prev = NoPrev
    /\ prev' = [rel |-> rel, fn |-> fn, ops |-> ops, result |-> result]
    /\ fn' = f /\ a' = x /\ b' = y /\ pc' = EntryOf(f)
    /\ len' = -1 /\ sa' = <<>> /\ sb' = <<>> /\ i' = -1 /\ tmp' = -1
    /\ ret' = -1 /\ result' = <<>> /\ panic' = "none" /\ ops' = <<>>
    /\ UNCHANGED target_arch

\* The same function on the same arguments, exchanged.
CallSwapped == Again("swapped", fn, b, a)

\* Another public function on the same contents.
CallSameContents ==
    \E f \in AcceptedBy(a, b) \ {fn} : Again("same_contents", f, a, b)

\* The same function with one argument replaced by other contents of the same
\* length.  (Any two pairs of the same lengths, (a, b) and (x, y), are linked by
\* two such calls, through (x, b).)
CallSameLengths ==
    \/ \E x \in ContentsOfLen(Len(a)) : Again("same_lengths", fn, x, b)
    \/ \E y \in ContentsOfLen(Len(b)) : Again("same_lengths", fn, a, y)

NextPairs == Next \/ CallSwapped \/ CallSameContents \/ CallSameLengths

\* Two calls of the public functions, one after the other.
SpecPairs == Init /\ [][NextPairs]_vars

(***************************************************************************)
(* constant_time_ne on its own: every pair of slices a caller inside the   *)
(* crate could hand it, of equal lengths or not.                           *)
(***************************************************************************)
InitNe ==
    /\ target_arch \in TargetArchs
    /\ prev = NoPrev
    /\ \E args \in SlicePairs : Start("constant_time_ne", args[1], args[2])

NextNe == NeAssert \/ NeSlice \/ NeTmp \/ NeLoopBody \/ NeLoopExit \/ NeHide

SpecNe == InitNe /\ [][NextNe]_vars

(***************************************************************************)
(* optimizer_hide on its own: every u8, every target.  The argument is     *)
(* a[0].                                                                   *)
(***************************************************************************)
InitHide ==
    /\ target_arch \in AllArchs
    /\ prev = NoPrev
    /\ \E value \in U8 : Start("optimizer_hide", <<value>>, <<>>)

HideCall ==
    /\ pc = "hide_entry"
    /\ \E upper \in UpperBits : ret' = optimizer_hide(target_arch, At(a, 0), upper)
    /\ result' = <<ret'>>
    /\ ops' = Append(ops, <<"hide">>)
    /\ pc' = "done"
    /\ UNCHANGED <<target_arch, fn, a, b, len, sa, sb, i, tmp, panic, prev>>

NextHide == HideCall

SpecHide == InitHide /\ [][NextHide]_vars

(***************************************************************************)
(* Reading the history.                                                    *)
(***************************************************************************)
\* The positions of ops at which an operation of the given kind was performed.
Positions(kind) == {p \in 1..Len(ops) : ops[p][1] = kind}

\* The indices the loop has read from a, in the order it read them.
ReadOrder == SelectSeq(ops, LAMBDA e : e[1] = "read_a")

\* a and b agree on their first k bytes.
SamePrefix(x, y, k) == \A j \in 1..k : x[j] = y[j]

\* The bitwise OR of x[j] XOR y[j] over the first k bytes.
RECURSIVE OrOfXors(_, _, _)
OrOfXors(x, y, k) ==
    IF k = 0 THEN 0 ELSE BitOr(OrOfXors(x, y, k - 1), BitXor(x[k], y[k]))

\* Bitwise AND of two bytes.
RECURSIVE BitAnd(_, _)
BitAnd(x, y) ==
    IF x = 0 \/ y = 0 THEN 0
    ELSE (IF (x % 2) = 1 /\ (y % 2) = 1 THEN 1 ELSE 0) + 2 * BitAnd(x \div 2, y \div 2)

\* A comparison was called (not constant_time_ne or optimizer_hide on its own).
Comparing == fn \in PublicFns

\* The number of iterations the loop of the running comparison has to make.
LoopLen == IF fn \in FixedFns THEN ArraySize(fn) ELSE Len(a)

(***************************************************************************)
(* The contract of constant_time_eq.                                       *)
(***************************************************************************)
\* C1: constant_time_eq(a, b) returns true if and only if a and b have the same
\* length and the same byte at every index; so it is true of (x, x), the empty
\* slice included, and false of every equal-length pair that differs anywhere.
C1_EqIffSameBytes ==
    (pc = "done" /\ fn = "constant_time_eq")
        => result = <<Len(a) = Len(b) /\ SamePrefix(a, b, Len(a))>>

\* C1's case: two slices of the longest enumerated length that differ in their
\* first byte only were compared, and the answer was false.
C1_Witness ==
    /\ pc = "done" /\ fn = "constant_time_eq"
    /\ Len(a) = MaxLen /\ Len(b) = MaxLen
    /\ a[1] # b[1]
    /\ \A j \in 2..MaxLen : a[j] = b[j]
    /\ result = <<FALSE>>

\* C2: when the lengths differ constant_time_eq returns false at once: the call
\* is at its entry or has returned, constant_time_ne was never entered (no
\* assertion, no loop iteration, no byte read, no optimizer_hide), and nothing
\* panicked.
C2_LengthMismatchIsFalse ==
    (fn = "constant_time_eq" /\ Len(a) # Len(b))
        => /\ pc \in {"eq_entry", "done"}
           /\ panic = "none"
           /\ pc = "eq_entry" => ops = <<>>
           /\ pc = "done" => (result = <<FALSE>> /\ ops = <<<<"len_eq">>>>)
           /\ tmp = -1 /\ i = -1 /\ ret = -1

\* C2's case: a call with a longer second argument whose common prefix agrees
\* has returned false.
C2_Witness ==
    /\ pc = "done" /\ fn = "constant_time_eq"
    /\ Len(a) = 1 /\ Len(b) = 2 /\ a[1] = b[1]
    /\ result = <<FALSE>>

(***************************************************************************)
(* optimizer_hide.                                                         *)
(***************************************************************************)
\* C5: optimizer_hide(v) returns v, for every u8 and on every target, and it
\* cannot fail.
C5_HideIsIdentity ==
    fn = "optimizer_hide"
        => /\ panic = "none"
           /\ pc \in {"hide_entry", "done"}
           /\ pc = "done" => (ret = At(a, 0) /\ result = <<At(a, 0)>>)

\* C5's case: the barrier returned on a target that passes the byte in a wider
\* register, for the largest byte.
C5_Witness ==
    /\ pc = "done" /\ fn = "optimizer_hide"
    /\ target_arch = "riscv64"
    /\ At(a, 0) = 255 /\ ret = 255

(***************************************************************************)
(* constant_time_ne's precondition.                                        *)
(***************************************************************************)
\* C10: constant_time_ne checks the lengths before anything else.  Called with
\* unequal lengths it halts at the assertion: no byte was read, optimizer_hide
\* was not called and nothing was returned.  Called with equal lengths it does
\* not panic, and every index it reads is within both slices.
C10_NeAssertsEqualLength ==
    fn = "constant_time_ne"
        => /\ ops # <<>> => ops[1] = <<"assert_len">>
           /\ Len(a) # Len(b)
                => /\ pc \in {"ne_entry", "panicked"}
                   /\ pc = "panicked" => panic = "assert"
                   /\ Positions("read_a") \cup Positions("read_b") = {}
                   /\ Positions("hide") = {}
                   /\ result = <<>> /\ ret = -1
           /\ Len(a) = Len(b)
                => /\ pc # "panicked" /\ panic = "none"
                   /\ \A p \in Positions("read_a") \cup Positions("read_b") :
                        ops[p][2] >= 0 /\ ops[p][2] < Len(a) /\ ops[p][2] < Len(b)

\* C10's case: constant_time_ne was called with a second slice longer than the
\* first (the lengths for which the loop would otherwise stay in bounds) and
\* halted at the assertion.
C10_Witness ==
    /\ fn = "constant_time_ne"
    /\ Len(a) = 1 /\ Len(b) = 2
    /\ pc = "panicked" /\ panic = "assert"

(***************************************************************************)
(* Two calls compared: the fixed-size variants against constant_time_eq,   *)
(* exchanged arguments, and other contents of the same lengths.            *)
(***************************************************************************)
\* C3: constant_time_eq_16/32/64 and constant_time_eq, called on the same
\* contents, return the same boolean.
C3_FixedSizeAgreesWithGeneric ==
    (pc = "done" /\ prev.rel = "same_contents"
        /\ (fn \in FixedFns \/ prev.fn \in FixedFns))
        => result = prev.result

\* C3's case: constant_time_eq_64 returned false on two arrays that differ in
\* their first byte only, after constant_time_eq had been called on them.
C3_Witness ==
    /\ pc = "done" /\ fn = "constant_time_eq_64"
    /\ prev.rel = "same_contents" /\ prev.fn = "constant_time_eq"
    /\ a[1] # b[1]
    /\ \A j \in 2..64 : a[j] = b[j]
    /\ result = <<FALSE>>

\* C4: two comparisons by the same function of arguments of the same (equal)
\* lengths perform the same operations in the same order, whatever the bytes:
\* the reads, XORs and ORs of every index, the barrier, the test against zero.
C4_SameLengthsSameOperations ==
    (pc = "done" /\ prev.rel = "same_lengths" /\ Len(a) = Len(b))
        => (prev.fn = fn /\ ops = prev.ops)

\* C4's case: two comparisons of slices of the longest enumerated length, the
\* first of equal contents and the second of contents that differ in the first
\* byte, have both returned.
C4_Witness ==
    /\ pc = "done" /\ fn = "constant_time_eq"
    /\ prev.rel = "same_lengths"
    /\ Len(a) = MaxLen /\ Len(b) = MaxLen
    /\ a[1] # b[1]
    /\ prev.result = <<TRUE>> /\ result = <<FALSE>>

\* C6: for a and b of equal length, constant_time_eq(a, b) and
\* constant_time_eq(b, a) return the same boolean.
C6_Symmetric ==
    (pc = "done" /\ prev.rel = "swapped" /\ fn = "constant_time_eq"
        /\ Len(a) = Len(b))
        => result = prev.result

\* C6's case: constant_time_eq(b, a) returned false after constant_time_eq(a, b),
\* for slices whose only difference is a larger byte in b.
C6_Witness ==
    /\ pc = "done" /\ fn = "constant_time_eq"
    /\ prev.rel = "swapped" /\ prev.fn = "constant_time_eq"
    /\ Len(a) = 2 /\ Len(b) = 2
    /\ a[1] = b[1] /\ a[2] > b[2]
    /\ result = <<FALSE>>

(***************************************************************************)
(* The order of events within one comparison.                              *)
(***************************************************************************)
\* C7: in every comparison the barrier is called at most once and only after
\* all the loop's iterations; the test against zero is made at most once and
\* only after the barrier returned, on the byte the barrier returned; a
\* comparison of equal lengths that has returned did both exactly once.
C7_BarrierBeforeZeroTest ==
    Comparing
        => /\ Cardinality(Positions("hide")) <= 1
           /\ Cardinality(Positions("cmp0")) <= 1
           /\ \A h \in Positions("hide") :
                /\ Cardinality({p \in Positions("or") : p < h}) = LoopLen
                /\ \A p \in Positions("read_a") \cup Positions("read_b")
                        \cup Positions("xor") \cup Positions("or") : p < h
           /\ \A c \in Positions("cmp0") :
                /\ \E h \in Positions("hide") : h < c
                /\ result = <<ret = 0>>
           /\ Positions("cmp0") = {} => (result = <<>> \/ Len(a) # Len(b))
           /\ (pc = "done" /\ Len(a) = Len(b))
                => (Positions("hide") # {} /\ Positions("cmp0") # {})

\* C7's case: a comparison of two arrays that differ has gone through its 32
\* iterations, then the barrier, then the test against zero.
C7_Witness ==
    /\ pc = "done" /\ fn = "constant_time_eq_32"
    /\ Cardinality(Positions("or")) = 32
    /\ Positions("hide") = {Len(ops) - 1}
    /\ Positions("cmp0") = {Len(ops)}
    /\ ret # 0 /\ result = <<FALSE>>

(***************************************************************************)
(* The loop.                                                               *)
(***************************************************************************)
\* The accumulator, once bound: after i iterations it is the OR of the XORs of
\* the first i bytes, a u8, and zero exactly when those bytes agree.
C8_Accumulator ==
    (Comparing /\ tmp # -1)
        => /\ i = 0 => tmp = 0
           /\ tmp = OrOfXors(a, b, i)
           /\ tmp \in U8
           /\ tmp = 0 <=> SamePrefix(a, b, i)

\* A step never clears a bit of the accumulator; a non-zero accumulator stays
\* non-zero.
C8_Step ==
    (tmp # -1 /\ tmp' # -1)
        => /\ BitAnd(tmp, tmp') = tmp
           /\ tmp # 0 => tmp' # 0

\* C8: the accumulator starts at 0; after k iterations it is the OR of
\* a[j] XOR b[j] over j < k, so it is a u8 and is 0 exactly when a and b agree
\* on their first k bytes; no step clears a bit of it, and once non-zero it
\* stays non-zero.
C8_LoopInvariant == []C8_Accumulator /\ [][C8_Step]_vars

\* C8's case: the accumulator became non-zero at the first byte and the loop went
\* on over a second byte that agrees.
C8_Witness ==
    /\ pc = "ne_loop" /\ fn = "constant_time_eq"
    /\ i = 2 /\ Len(a) > 2
    /\ a[1] # b[1] /\ a[2] = b[2]
    /\ tmp # 0

\* While the loop runs it has read the indices 0, 1, ..., i-1, each once and in
\* this order; when it is over it has read all of 0..n-1 (16, 32 or 64 of them
\* in the fixed-size variants), whatever the accumulator was on the way; a
\* comparison that returned returned a boolean, and true for n = 0.
C9_Iterations ==
    (Comparing /\ Len(a) = Len(b))
        => /\ i # -1 => ReadOrder = [k \in 1..i |-> <<"read_a", k - 1>>]
           /\ i = -1 => ReadOrder = <<>>
           /\ pc \in {"ne_hide", "n_hide", "eq_cmp", "eqn_cmp", "done"}
                => (i = LoopLen /\ LoopLen = Len(a))
           /\ pc = "done"
                => /\ result \in {<<TRUE>>, <<FALSE>>}
                   /\ Len(a) = 0 => result = <<TRUE>>
           /\ panic = "none"

\* C9: a comparison of equal lengths n visits every index 0..n-1 once, in
\* ascending order, in exactly n iterations whatever the accumulator holds, and
\* then returns a boolean (true for n = 0); every call returns.
C9_VisitsEveryIndexAndReturns == []C9_Iterations /\ <>(pc = "done")

\* C9's case: a comparison of slices of the longest enumerated length that differ
\* in their first byte has made all its iterations and returned.
C9_Witness ==
    /\ pc = "done" /\ fn = "constant_time_eq"
    /\ Len(a) = MaxLen /\ Len(b) = MaxLen
    /\ a[1] # b[1]
    /\ i = MaxLen
    /\ Len(ReadOrder) = MaxLen

====
